---- MODULE Spec2Model ----
(***************************************************************************)
(* roam-fm: the station fetcher (src/src/utils/fetchStations.ts) and the   *)
(* tag-driven refresh of the globe view with its station normalisation     *)
(* (src/src/components/WorldMap.tsx), and the player of that view: the     *)
(* selection of a station and the audio element behind audioRef.           *)
(*                                                                         *)
(* JavaScript values are records [t, n, s]: t is the kind of the value, n  *)
(* the value of a finite number (whole degrees are enough for the          *)
(* coordinates that occur here), s the characters of a string.             *)
(***************************************************************************)
EXTENDS Integers, Sequences, FiniteSets

VARIABLES mode, tag, fetches, stations, error, isLoading,
          selectedStation, focusedStation, isPlaying, audio, calls, favorites

\* the state of the player: the selected and the focused station, the playing
\* flag, the audio element behind audioRef, the calls that the handler run
\* last made on that element, and the favourites list
player == <<selectedStation, focusedStation, isPlaying, audio, calls, favorites>>

vars == <<mode, tag, fetches, stations, error, isLoading, player>>

---------------------------------------------------------------------------
(* Bounds of the model                                                     *)

\* fetch operations (effect runs) in one behaviour
MaxFetches == 2
\* records of an enumerated raw array
MaxRecords == 2
\* records of the longest generated raw array (beyond the cap of 500)
MaxLong == 502

---------------------------------------------------------------------------
(* JavaScript values                                                       *)

Undefined == [t |-> "undefined", n |-> 0, s |-> <<>>]
NaN == [t |-> "NaN", n |-> 0, s |-> <<>>]
Num(i) == [t |-> "number", n |-> i, s |-> <<>>]
Infinity(neg) == [t |-> IF neg THEN "-Infinity" ELSE "Infinity", n |-> 0, s |-> <<>>]
Str(cs) == [t |-> "string", n |-> 0, s |-> cs]

\* isNaN(v), for v a number
IsNaN(v) == v.t = "NaN"

\* ToBoolean(v): undefined, null, 0, NaN and '' are falsy
Truthy(v) ==
    CASE v.t = "undefined" -> FALSE
      [] v.t = "null" -> FALSE
      [] v.t = "NaN" -> FALSE
      [] v.t = "number" -> v.n # 0
      [] v.t = "string" -> v.s # <<>>
      [] OTHER -> TRUE

\* a || b
Or(a, b) == IF Truthy(a) THEN a ELSE b

\* a === b (NaN equals nothing)
StrictEq(a, b) == a.t # "NaN" /\ a = b

DigitChars == <<"0", "1", "2", "3", "4", "5", "6", "7", "8", "9">>

IsDigit(c) == \E i \in 1..Len(DigitChars) : DigitChars[i] = c

DigitVal(c) == (CHOOSE i \in 1..Len(DigitChars) : DigitChars[i] = c) - 1

RECURSIVE Digits(_)
\* the decimal digits of a natural number
Digits(k) ==
    IF k < 10 THEN <<DigitChars[k + 1]>>
    ELSE Append(Digits(k \div 10), DigitChars[(k % 10) + 1])

InfinityChars == <<"I", "n", "f", "i", "n", "i", "t", "y">>

\* String(v), the first step of parseFloat(v)
ToString(v) ==
    CASE v.t = "string" -> v.s
      [] v.t = "number" -> IF v.n < 0 THEN <<"-">> \o Digits(0 - v.n) ELSE Digits(v.n)
      [] v.t = "Infinity" -> InfinityChars
      [] v.t = "-Infinity" -> <<"-">> \o InfinityChars
      [] v.t = "NaN" -> <<"N", "a", "N">>
      [] v.t = "null" -> <<"n", "u", "l", "l">>
      [] OTHER -> <<"u", "n", "d", "e", "f", "i", "n", "e", "d">>

RECURSIVE TrimStart(_)
TrimStart(cs) == IF cs # <<>> /\ Head(cs) = " " THEN TrimStart(Tail(cs)) ELSE cs

StartsWith(cs, p) == Len(cs) >= Len(p) /\ SubSeq(cs, 1, Len(p)) = p

\* the length of the longest prefix of cs made of decimal digits
DigitPrefix(cs) ==
    CHOOSE k \in 0..Len(cs) :
        /\ \A j \in 1..k : IsDigit(cs[j])
        /\ (k < Len(cs) => ~IsDigit(cs[k + 1]))

RECURSIVE DigitsValue(_, _)
\* the number written by the first k characters of cs
DigitsValue(cs, k) ==
    IF k = 0 THEN 0 ELSE 10 * DigitsValue(cs, k - 1) + DigitVal(cs[k])

\* parseFloat(v): leading white space is skipped, then an optional sign, then
\* "Infinity" or the longest decimal prefix; anything else is NaN.  The strings
\* of the model hold no fraction and no exponent.
ParseFloat(v) ==
    LET cs == TrimStart(ToString(v))
        signed == cs # <<>> /\ Head(cs) \in {"-", "+"}
        neg == cs # <<>> /\ Head(cs) = "-"
        rest == IF signed THEN Tail(cs) ELSE cs
        k == DigitPrefix(rest)
    IN  IF StartsWith(rest, InfinityChars) THEN Infinity(neg)
        ELSE IF k = 0 THEN NaN
        ELSE Num(IF neg THEN 0 - DigitsValue(rest, k) ELSE DigitsValue(rest, k))

---------------------------------------------------------------------------
(* Raw station records and JSON payloads                                   *)

\* an element of the raw array: an object with the fields the view reads, or null
Record(name, latitude, geo_lat, longitude, geo_long, url) ==
    [obj |-> TRUE, name |-> name, latitude |-> latitude, longitude |-> longitude,
     geo_lat |-> geo_lat, geo_long |-> geo_long, url_resolved |-> url]

NullEntry ==
    [obj |-> FALSE, name |-> Undefined, latitude |-> Undefined, longitude |-> Undefined,
     geo_lat |-> Undefined, geo_long |-> Undefined, url_resolved |-> Undefined]

\* what res.json() can yield: an array of records, null, the number 0, an object
ArrayOf(items) == [kind |-> "array", items |-> items]
NullPayload == [kind |-> "null", items |-> <<>>]
ZeroPayload == [kind |-> "zero", items |-> <<>>]
ObjectPayload == [kind |-> "object", items |-> <<>>]

\* Array.isArray(data)
IsArray(data) == data.kind = "array"

\* ToBoolean(data): null and 0 are falsy, every array and object is truthy
PayloadTruthy(data) == data.kind \notin {"null", "zero"}

Min(a, b) == IF a <= b THEN a ELSE b

\* seq.slice(0, end + 1): the cap off by one
SliceOneMore(seq, end) == SubSeq(seq, 1, Min(end + 1, Len(seq)))

\* seq.slice(0, end)
Slice(seq, end) == SubSeq(seq, 1, Min(end, Len(seq)))

---------------------------------------------------------------------------
(* Station normalisation: the reduce of the fetch's then handler           *)

\* const lat = parseFloat(current.latitude || current.geo_lat)
Lat(current) == ParseFloat(Or(current.latitude, current.geo_lat))

\* const lng = parseFloat(current.longitude || current.geo_long)
Lng(current) == ParseFloat(Or(current.longitude, current.geo_long))

\* acc.some(station => station.name === current.name &&
\*   station.latitude === lat && station.longitude === lng)
IsDuplicate(acc, current, lat, lng) ==
    \E k \in 1..Len(acc) :
        /\ StrictEq(acc[k].name, current.name)
        /\ StrictEq(acc[k].latitude, lat)
        /\ StrictEq(acc[k].longitude, lng)

\* the reducer with a later duplicate taking the place of the retained one
ReduceStepLastWins(acc, current) ==
    LET lat == Lat(current)
        lng == Lng(current)
        kept == [current EXCEPT !.latitude = lat, !.longitude = lng]
        Other(s) == ~(StrictEq(s.name, current.name) /\ StrictEq(s.latitude, lat)
                      /\ StrictEq(s.longitude, lng))
    IN  IF ~IsNaN(lat) /\ ~IsNaN(lng)
        THEN Append(SelectSeq(acc, Other), kept)
        ELSE acc

\* one call of the reducer: acc after current
ReduceStep(acc, current) ==
    LET lat == Lat(current)
        lng == Lng(current)
    IN  IF ~IsDuplicate(acc, current, lat, lng) /\ ~IsNaN(lat) /\ ~IsNaN(lng)
        THEN Append(acc, [current EXCEPT !.latitude = lat, !.longitude = lng])
        ELSE acc

RECURSIVE Reduce(_, _, _, _)
\* data[lo..hi] reduced from left to right, starting from acc.  The range is
\* halved only to keep the depth of the evaluation logarithmic in its length;
\* the test on left evaluates the left half before the right half starts.
Reduce(data, lo, hi, acc) ==
    IF lo > hi THEN acc
    ELSE IF lo = hi THEN ReduceStep(acc, data[lo])
    ELSE LET mid == (lo + hi) \div 2
             left == Reduce(data, lo, mid, acc)
         IN  IF Len(left) >= 0 THEN Reduce(data, mid + 1, hi, left) ELSE left

\* const uniqueStations = data.reduce(..., [])
UniqueStations(data) == Reduce(data, 1, Len(data), <<>>)

\* an array element that is an object
IsObject(r) == r.obj

\* reading current.latitude of a null element throws a TypeError
ReduceThrows(data) == \E i \in 1..Len(data) : ~data[i].obj

---------------------------------------------------------------------------
(* The handlers of the refresh: fetchStationsByTag(tag).then.catch.finally *)

NoError == "null"
ErrNoStations == "No stations found for this tag"
ErrFailed == "Failed to load stations. Please try again."

\* uniqueStations.slice(0, 500)
SliceEnd == 500

\* the view state the handlers write
View == [stations |-> stations, error |-> error, isLoading |-> isLoading]

\* the then handler with a no-results branch that only sets the message
ThenHandlerKeepsStations(ui, data) ==
    IF ~IsArray(data) \/ Len(data.items) = 0
    THEN [ui EXCEPT !.error = ErrNoStations]
    ELSE [ui EXCEPT !.stations = Slice(UniqueStations(data.items), SliceEnd)]

\* .then(data => ...), when it returns normally
ThenHandler(ui, data) ==
    IF ~IsArray(data) \/ Len(data.items) = 0
    THEN [ui EXCEPT !.error = ErrNoStations, !.stations = <<>>]
    ELSE [ui EXCEPT !.stations = Slice(UniqueStations(data.items), SliceEnd)]

\* the then handler throws before it has set any state
ThenThrows(data) == IsArray(data) /\ Len(data.items) > 0 /\ ReduceThrows(data.items)

\* the catch handler without setStations([])
CatchHandlerKeepsStations(ui) == [ui EXCEPT !.error = ErrFailed]

\* .catch(error => ...)
CatchHandler(ui) == [ui EXCEPT !.error = ErrFailed, !.stations = <<>>]

\* .finally(() => ...)
FinallyHandler(ui) == [ui EXCEPT !.isLoading = FALSE]

\* the whole chain run on a settled promise: one microtask checkpoint
Settled(ui, status, data) ==
    IF status = "fulfilled" /\ ~ThenThrows(data)
    THEN FinallyHandler(ThenHandler(ui, data))
    ELSE FinallyHandler(CatchHandler(ui))

---------------------------------------------------------------------------
(* The station fetcher                                                     *)

\* the servers by the host names of their base URLs
RADIO_BROWSER_SERVERS == <<"de1", "fi1", "de2", "fr1", "nl1">>

\* how one request can end: a network error, the 5 s AbortSignal timeout, a
\* status outside 200..299, a body that is no JSON, or a parsed JSON body
FailureKinds == {"neterr", "timeout", "httperr", "badjson"}

Failed(kind) == [kind |-> kind, data |-> NullPayload]
Ok(data) == [kind |-> "ok", data |-> data]

Outcomes(payloads) == {Failed(k) : k \in FailureKinds} \cup {Ok(d) : d \in payloads}

\* tryFetchFromServer: the parsed body, or null after a caught failure
TryFetchFromServer(outcome) == IF outcome.kind = "ok" THEN outcome.data ELSE NullPayload

\* console.warn in the catch block of tryFetchFromServer
Warns(outcome) == outcome.kind # "ok"

\* a fetch operation right after its call: the request to the first server is out
NewFetch(t) ==
    [tag |-> t, status |-> "pending", tried |-> <<RADIO_BROWSER_SERVERS[1]>>,
     warnings |-> 0, data |-> NullPayload]

\* the server list walked again from its first entry once every server failed
FetchStationsByTagStartsOver(fo, outcome) ==
    LET data == TryFetchFromServer(outcome)
        k == Len(fo.tried)
        logged == [fo EXCEPT !.warnings = @ + (IF Warns(outcome) THEN 1 ELSE 0)]
    IN  IF PayloadTruthy(data)
        THEN [logged EXCEPT !.status = "fulfilled", !.data = data]
        ELSE IF k < Len(RADIO_BROWSER_SERVERS)
        THEN [logged EXCEPT !.tried = Append(@, RADIO_BROWSER_SERVERS[k + 1])]
        ELSE NewFetch(fo.tag)

\* fetchStationsByTag, the server list: the loop resumed when the awaited
\* request to the server tried last has ended with outcome
FetchStationsByTag(fo, outcome) ==
    LET data == TryFetchFromServer(outcome)
        k == Len(fo.tried)
        logged == [fo EXCEPT !.warnings = @ + (IF Warns(outcome) THEN 1 ELSE 0)]
    IN  IF PayloadTruthy(data)
        THEN [logged EXCEPT !.status = "fulfilled", !.data = data]
        ELSE IF k < Len(RADIO_BROWSER_SERVERS)
        THEN [logged EXCEPT !.tried = Append(@, RADIO_BROWSER_SERVERS[k + 1])]
        ELSE [logged EXCEPT !.status = "rejected"]

\* fetchStationsByTag, the single server: any failure is rethrown, and so is the
\* TypeError of reading data.length of null
FetchStationsSingle(fo, outcome) ==
    IF outcome.kind # "ok" \/ outcome.data.kind = "null"
    THEN [fo EXCEPT !.status = "rejected"]
    ELSE [fo EXCEPT !.status = "fulfilled", !.data = outcome.data]

---------------------------------------------------------------------------
(* Inputs                                                                  *)

Modes == {"multi", "single"}

\* two of the genres of the filter bar
Tags == {"jazz", "rock"}

Names == {Str(<<"A">>), Str(<<" ", "a">>)}

Urls == {Str(<<"u">>)}

\* <<latitude, geo_lat>> of a raw record
LatPairs ==
    { <<Undefined, Undefined>>, <<Undefined, Num(2)>>, <<Num(0), Num(2)>>,
      <<Num(1), Undefined>>, <<Str(<<"1">>), Undefined>>, <<Str(<<"0">>), Undefined>>,
      <<Str(<<"a", "b", "c">>), Undefined>>, <<Str(InfinityChars), Undefined>> }

\* <<longitude, geo_long>> of a raw record
LngPairs == { <<Num(5), Undefined>>, <<Num(0), Num(7)>> }

RawRecords ==
    { Record(nm, la[1], la[2], lo[1], lo[2], u) :
        nm \in Names, la \in LatPairs, lo \in LngPairs, u \in Urls }

SeqsUpTo(S, n) == UNION { [1..k -> S] : k \in 0..n }

\* n records that differ in their latitude
Long(n) ==
    [i \in 1..n |-> Record(Str(<<"A">>), Num(i), Undefined, Num(5), Undefined, Undefined)]

RecA == Record(Str(<<"A">>), Num(1), Undefined, Num(5), Undefined, Str(<<"u">>))
\* RecA once more under another stream URL, and a station somewhere else
RecANoUrl == Record(Str(<<"A">>), Num(1), Undefined, Num(5), Undefined, Undefined)
RecB == Record(Str(<<"A">>), Num(2), Undefined, Num(5), Undefined, Str(<<"v">>))
RepeatRecords == {RecA, RecANoUrl, RecB}
\* a station under another name
RecC == Record(Str(<<"C">>), Num(3), Undefined, Num(5), Undefined, Str(<<"u">>))

\* the bodies the normalisation is run on: every short array, arrays around the
\* cap, without and with a repeated first record, the arrays of records that
\* repeat a station, and a body that is no array
RichArrays ==
    {ArrayOf(items) : items \in SeqsUpTo(RawRecords \cup {NullEntry}, MaxRecords)}
    \cup {ArrayOf(Long(n)) : n \in (SliceEnd - 1)..MaxLong}
    \cup {ArrayOf(<<Long(1)[1]>> \o Long(n)) : n \in (SliceEnd - 1)..MaxLong}
    \cup {ArrayOf(items) : items \in [1..(MaxRecords + 1) -> RepeatRecords]}
    \cup {ObjectPayload}

\* the bodies a server answers with in the interleaving model
SmallPayloads == {NullPayload, ZeroPayload, ArrayOf(<<>>), ArrayOf(<<RecA>>)}

\* the bodies a server answers with in the model with the player
PlayerPayloads == {ArrayOf(<<>>), ArrayOf(<<RecA, RecB>>), ArrayOf(<<RecANoUrl, RecC>>)}

\* the bodies a server answers with in the model of one fetch operation
FetchPayloads == SmallPayloads \cup PlayerPayloads \cup {ObjectPayload}

---------------------------------------------------------------------------
(* The audio element                                                       *)

\* no element is rendered: audioRef.current is null
NoAudio == [mounted |-> FALSE, src |-> <<>>, paused |-> TRUE]

PauseCall == [op |-> "pause", src |-> <<>>]
PlayCall == [op |-> "play", src |-> <<>>]
SrcCall(v) == [op |-> "src", src |-> ToString(v)]

\* one call on the element.  Assigning src loads the new resource, which stops
\* what the element was playing.
Call(a, c) ==
    CASE c.op = "pause" -> [a EXCEPT !.paused = TRUE]
      [] c.op = "play" -> [a EXCEPT !.paused = FALSE]
      [] c.op = "src" -> [a EXCEPT !.src = c.src, !.paused = TRUE]

RECURSIVE RunCalls(_, _)
RunCalls(a, cs) == IF cs = <<>> THEN a ELSE RunCalls(Call(a, Head(cs)), Tail(cs))

\* handleStationClick with the source assigned after play
StationClickCallsSrcLast(station) ==
    <<PauseCall, PlayCall, SrcCall(Or(station.url_resolved, Str(<<>>)))>>

\* the calls of handleStationClick on a rendered element
StationClickCalls(station) ==
    <<PauseCall, SrcCall(Or(station.url_resolved, Str(<<>>))), PlayCall>>

\* the call of togglePlayback on a rendered element
ToggleCalls(playing) == IF playing THEN <<PauseCall>> ELSE <<PlayCall>>

---------------------------------------------------------------------------
(* The state machine                                                       *)

\* Home mounts WorldMap with tag 'jazz'; the effect has run once
Init ==
    /\ mode \in Modes
    /\ tag = "jazz"
    /\ fetches = <<NewFetch("jazz")>>
    /\ stations = <<>>
    /\ error = NoError
    /\ isLoading = TRUE
    /\ selectedStation = NullEntry
    /\ focusedStation = NullEntry
    /\ isPlaying = FALSE
    /\ audio = NoAudio
    /\ calls = <<>>
    /\ favorites = <<>>

\* a start of the refresh that also empties the station list
ChangeTagClearsStations(t) ==
    /\ t # tag
    /\ Len(fetches) < MaxFetches
    /\ tag' = t
    /\ isLoading' = TRUE
    /\ error' = NoError
    /\ fetches' = Append(fetches, NewFetch(t))
    /\ stations' = <<>>
    /\ UNCHANGED <<mode, player>>

\* a genre button calls onTagChange = setTag; the effect on [tag] runs again
ChangeTag(t) ==
    /\ t # tag
    /\ Len(fetches) < MaxFetches
    /\ tag' = t
    /\ isLoading' = TRUE
    /\ error' = NoError
    /\ fetches' = Append(fetches, NewFetch(t))
    /\ UNCHANGED <<mode, stations, player>>

\* the view after fetch record fo: the handler chain runs once it has settled
ViewAfter(fo) == IF fo.status = "pending" THEN View ELSE Settled(View, fo.status, fo.data)

Resume(f, fo) ==
    LET ui == ViewAfter(fo)
    IN  /\ fetches' = [fetches EXCEPT ![f] = fo]
        /\ stations' = ui.stations
        /\ error' = ui.error
        /\ isLoading' = ui.isLoading
        /\ UNCHANGED <<mode, tag, player>>

\* the request of fetch f to the server tried last ends (server list)
MultiResponds(f, outcome) ==
    /\ mode = "multi"
    /\ f \in 1..Len(fetches)
    /\ fetches[f].status = "pending"
    /\ Resume(f, FetchStationsByTag(fetches[f], outcome))

\* the request of fetch f ends (single server)
SingleResponds(f, outcome) ==
    /\ mode = "single"
    /\ f \in 1..Len(fetches)
    /\ fetches[f].status = "pending"
    /\ Resume(f, FetchStationsSingle(fetches[f], outcome))

\* handleStationClick(station).  The audio element is rendered only while a
\* station is selected, so audioRef.current is set by the render that follows
\* the first selection.
StationClicked(station) ==
    /\ LET cs == IF audio.mounted THEN StationClickCalls(station) ELSE <<>>
       IN  /\ selectedStation' = station
           /\ focusedStation' = station
           /\ calls' = cs
           /\ audio' = [RunCalls(audio, cs) EXCEPT !.mounted = TRUE]
           /\ isPlaying' = IF audio.mounted THEN TRUE ELSE isPlaying
    /\ UNCHANGED <<mode, tag, fetches, stations, error, isLoading, favorites>>

\* a click on a point of the globe, on a search result or on the random button
\* selects station i of the list
HandleStationClick(i) ==
    /\ i \in 1..Len(stations)
    /\ StationClicked(stations[i])

\* the play button of entry j of the favourites list
FavoriteClicked(j) ==
    /\ j \in 1..Len(favorites)
    /\ StationClicked(favorites[j])

\* the updater of toggleFavorite: prev => ...
ToggleFavoriteUpdate(prev, station) ==
    LET isFavorite == \E k \in 1..Len(prev) : StrictEq(prev[k].name, station.name)
        Other(fav) == ~StrictEq(fav.name, station.name)
    IN  IF isFavorite THEN SelectSeq(prev, Other) ELSE Append(prev, station)

\* the favourite button of the player UI: selectedStation && toggleFavorite(...)
ToggleFavorite ==
    /\ IsObject(selectedStation)
    /\ favorites' = ToggleFavoriteUpdate(favorites, selectedStation)
    /\ UNCHANGED <<mode, tag, fetches, stations, error, isLoading,
                   selectedStation, focusedStation, isPlaying, audio, calls>>

\* the play/pause button of the player UI
TogglePlayback ==
    /\ IsObject(selectedStation)
    /\ LET cs == IF audio.mounted THEN ToggleCalls(isPlaying) ELSE <<>>
       IN  /\ calls' = cs
           /\ audio' = RunCalls(audio, cs)
           /\ isPlaying' = IF audio.mounted THEN ~isPlaying ELSE isPlaying
    /\ UNCHANGED <<mode, tag, fetches, stations, error, isLoading,
                   selectedStation, focusedStation, favorites>>

Next ==
    \/ \E t \in Tags : ChangeTag(t)
    \/ \E f \in 1..MaxFetches, o \in Outcomes(SmallPayloads) : MultiResponds(f, o)
    \/ \E f \in 1..MaxFetches, o \in Outcomes(SmallPayloads) : SingleResponds(f, o)

Spec == Init /\ [][Next]_vars

\* one fetch operation, the one of the mount, with every request outcome
NextFetch ==
    \/ \E o \in Outcomes(FetchPayloads) : MultiResponds(1, o)
    \/ \E o \in Outcomes(FetchPayloads) : SingleResponds(1, o)

\* every request ends: the server answers, the connection fails, or the signal
\* of AbortSignal.timeout(5000) aborts it
SpecFetch ==
    /\ Init
    /\ [][NextFetch]_vars
    /\ WF_vars(\E o \in Outcomes(FetchPayloads) : MultiResponds(1, o))
    /\ WF_vars(\E o \in Outcomes(FetchPayloads) : SingleResponds(1, o))

\* the normalisation on every raw array of RichArrays: the first server of the
\* list answers the fetch of the mount with it
InitNorm == Init /\ mode = "multi"

NextNorm ==
    /\ fetches[1].status = "pending"
    /\ \E d \in RichArrays : MultiResponds(1, Ok(d))

SpecNorm == InitNorm /\ [][NextNorm]_vars

\* the refresh together with the player, on the single-server fetcher
InitPlayer == Init /\ mode = "single"

NextPlayer ==
    \/ \E t \in Tags : ChangeTag(t)
    \/ \E f \in 1..MaxFetches, o \in Outcomes(PlayerPayloads) : SingleResponds(f, o)
    \/ \E i \in 1..MaxRecords : HandleStationClick(i)
    \/ \E j \in 1..MaxRecords : FavoriteClicked(j)
    \/ TogglePlayback
    \/ ToggleFavorite

SpecPlayer == InitPlayer /\ [][NextPlayer]_vars

---------------------------------------------------------------------------
(* Vocabulary of the properties                                            *)

UpperChars ==
    <<"A", "B", "C", "D", "E", "F", "G", "H", "I", "J", "K", "L", "M",
      "N", "O", "P", "Q", "R", "S", "T", "U", "V", "W", "X", "Y", "Z">>

LowerChars ==
    <<"a", "b", "c", "d", "e", "f", "g", "h", "i", "j", "k", "l", "m",
      "n", "o", "p", "q", "r", "s", "t", "u", "v", "w", "x", "y", "z">>

RECURSIVE TrimEnd(_)
TrimEnd(cs) ==
    IF cs # <<>> /\ cs[Len(cs)] = " " THEN TrimEnd(SubSeq(cs, 1, Len(cs) - 1)) ELSE cs

\* a number that is neither NaN nor infinite
IsFinite(v) == v.t = "number"

ToLowerChar(c) ==
    IF \E i \in 1..Len(UpperChars) : UpperChars[i] = c
    THEN LowerChars[CHOOSE i \in 1..Len(UpperChars) : UpperChars[i] = c]
    ELSE c

\* a name trimmed and case-folded
NormName(v) ==
    LET cs == TrimEnd(TrimStart(ToString(v)))
    IN  [i \in 1..Len(cs) |-> ToLowerChar(cs[i])]

Abs(i) == IF i < 0 THEN 0 - i ELSE i

\* two coordinates less than 0.001 degrees apart
WithinTolerance(a, b) == IsFinite(a) /\ IsFinite(b) /\ 1000 * Abs(a.n - b.n) < 1

\* a field that the record has
Present(v) == v.t # "undefined"

\* the coordinates of a raw record as the specification coerces them
SpecLat(r) == ParseFloat(IF Present(r.latitude) THEN r.latitude ELSE r.geo_lat)
SpecLng(r) == ParseFloat(IF Present(r.longitude) THEN r.longitude ELSE r.geo_long)

SameCoordinates(a, b) ==
    StrictEq(a.latitude, b.latitude) /\ StrictEq(a.longitude, b.longitude)

SameUrl(a, b) == a.url_resolved.t = "string" /\ a.url_resolved = b.url_resolved

\* the dedup rule: any of the three pairwise matches
RuleDuplicates(a, b) ==
    \/ NormName(a.name) = NormName(b.name) /\ SameCoordinates(a, b)
    \/ NormName(a.name) = NormName(b.name) /\ SameUrl(a, b)
    \/ SameCoordinates(a, b) /\ SameUrl(a, b)

NoRuleDuplicates(list) ==
    \A i, j \in 1..Len(list) : i < j => ~RuleDuplicates(list[i], list[j])

AllFinite(list) ==
    \A i \in 1..Len(list) : IsFinite(list[i].latitude) /\ IsFinite(list[i].longitude)

\* the multi-server fetch operations of the state
MultiFetches == IF mode = "multi" THEN 1..Len(fetches) ELSE {}

\* requests of fetch operation fo that have ended
Ended(fo) == IF fo.status = "pending" THEN Len(fo.tried) - 1 ELSE Len(fo.tried)

\* fetch 1 has resolved with a short non-empty array that the reduce ran through
NormalisedShort ==
    /\ fetches[1].status = "fulfilled"
    /\ IsArray(fetches[1].data)
    /\ Len(fetches[1].data.items) \in 1..(MaxRecords + 1)
    /\ ~ReduceThrows(fetches[1].data.items)

\* the reducer retains record j of data
Survives(data, j) == Len(Reduce(data, 1, j, <<>>)) > Len(Reduce(data, 1, j - 1, <<>>))

\* a raw record as the reducer pushes it
Coerced(r) == [r EXCEPT !.latitude = Lat(r), !.longitude = Lng(r)]

\* a raw record whose computed coordinates are numbers
Usable(r) == ~IsNaN(Lat(r)) /\ ~IsNaN(Lng(r))

\* two raw records that the reducer takes for the same station
SameStation(a, b) ==
    /\ StrictEq(a.name, b.name)
    /\ StrictEq(Lat(a), Lat(b))
    /\ StrictEq(Lng(a), Lng(b))

---------------------------------------------------------------------------
(* Properties of the fetcher                                               *)

\* C1: within one multi-server fetch the servers are tried in list order, none
\* twice, and every request that was followed by another ended in a failure
\* (network error, bad status, timeout or unparsable body).
C1_SequentialInOrder ==
    \A f \in MultiFetches :
        /\ fetches[f].tried = SubSeq(RADIO_BROWSER_SERVERS, 1, Len(fetches[f].tried))
        /\ fetches[f].warnings >= Len(fetches[f].tried) - 1

\* C2: when every earlier candidate failed and the candidate tried last answers
\* with a success status and a JSON body, the fetch resolves with exactly that
\* body and tries no further candidate, whatever the body is.
C2_FirstSuccessReturned ==
    [][\A f \in MultiFetches, d \in SmallPayloads :
          (fetches[f].warnings = Len(fetches[f].tried) - 1 /\ MultiResponds(f, Ok(d)))
          => /\ fetches'[f].status = "fulfilled"
             /\ fetches'[f].data = d
             /\ fetches'[f].tried = fetches[f].tried]_vars

\* C3: a multi-server fetch is rejected if and only if every candidate failed;
\* it is never rejected while a candidate is untried.
C3_RejectsIffAllFailed ==
    \A f \in MultiFetches :
        /\ fetches[f].status = "rejected"
              <=> (Ended(fetches[f]) = Len(RADIO_BROWSER_SERVERS)
                   /\ fetches[f].warnings = Len(RADIO_BROWSER_SERVERS))
        /\ fetches[f].status = "rejected"
              => fetches[f].tried = RADIO_BROWSER_SERVERS

---------------------------------------------------------------------------
(* Properties of the refresh                                               *)

\* the view that the response of fetch operation fo alone leads to
DerivedFrom(fo) ==
    Settled([stations |-> <<>>, error |-> NoError, isLoading |-> TRUE], fo.status, fo.data)

\* C4: once two overlapping fetches have both completed, the station list, the
\* error message and the loading flag are those derived from the response of
\* the fetch started last, whatever the order of arrival.
C4_LatestTagWins ==
    (Len(fetches) >= 2 /\ \A f \in 1..Len(fetches) : fetches[f].status # "pending")
    => View = DerivedFrom(fetches[Len(fetches)])

---------------------------------------------------------------------------
(* Properties of the normalisation                                         *)

\* C5: every displayed station has a finite latitude and a finite longitude.
C5_CoordinatesFinite == AllFinite(stations)

\* C6: no two displayed stations are duplicates under the dedup rule (same
\* normalised name and coordinates, same normalised name and stream URL, or
\* same coordinates and stream URL).
C6_NoRuleDuplicates == NoRuleDuplicates(stations)

\* C7: of two raw records with equal normalised names and coordinates within
\* the tolerance the later one does not survive the normalisation.
C7_FirstOfPairSurvives ==
    NormalisedShort =>
        LET data == fetches[1].data.items
        IN  \A i, j \in 1..Len(data) :
                ( /\ i < j
                  /\ NormName(data[i].name) = NormName(data[j].name)
                  /\ WithinTolerance(SpecLat(data[i]), SpecLat(data[j]))
                  /\ WithinTolerance(SpecLng(data[i]), SpecLng(data[j])) )
                => ~Survives(data, j)

\* C8: the latitude computed for a raw record is the parsed `latitude` field
\* whenever the record has one, and the parsed `geo_lat` otherwise; likewise the
\* longitude; a retained station carries these values.
C8_CoordinateSource ==
    NormalisedShort =>
        LET data == fetches[1].data.items
        IN  \A j \in 1..Len(data) :
                /\ Lat(data[j]) = SpecLat(data[j])
                /\ Lng(data[j]) = SpecLng(data[j])
                /\ Survives(data, j) =>
                      LET kept == Reduce(data, 1, j, <<>>)
                      IN  /\ kept[Len(kept)].latitude = SpecLat(data[j])
                          /\ kept[Len(kept)].longitude = SpecLng(data[j])

\* C9: normalising a displayed list that is already normalised (no duplicates,
\* finite coordinates, fewer entries than the cap) returns it unchanged.
C9_Idempotent ==
    (NoRuleDuplicates(stations) /\ AllFinite(stations) /\ Len(stations) < SliceEnd)
    => UniqueStations(stations) = stations

\* C10: the displayed list never holds more than 500 entries, and after a
\* fetch whose array was normalised it is the first min(500, n) elements, in
\* order, of the n-element deduplicated sequence.
C10_CappedPrefix ==
    /\ Len(stations) <= SliceEnd
    /\ ( /\ fetches[1].status = "fulfilled"
         /\ IsArray(fetches[1].data)
         /\ Len(fetches[1].data.items) > 0
         /\ ~ReduceThrows(fetches[1].data.items) )
       => LET unique == UniqueStations(fetches[1].data.items)
          IN  /\ Len(stations) = Min(SliceEnd, Len(unique))
              /\ \A i \in 1..Len(stations) : stations[i] = unique[i]

\* a raw array with a repeated record and more than 500 distinct ones was cut
C10_Witness ==
    /\ fetches[1].status = "fulfilled"
    /\ Len(stations) = SliceEnd
    /\ Len(UniqueStations(fetches[1].data.items)) > SliceEnd
    /\ Len(UniqueStations(fetches[1].data.items)) < Len(fetches[1].data.items)

C12_MalformedRecordsDropped ==
    ( /\ fetches[1].status = "fulfilled"
      /\ IsArray(fetches[1].data)
      /\ Len(fetches[1].data.items) > 0 )
    => /\ error # ErrFailed
       /\ stations = Slice(UniqueStations(SelectSeq(fetches[1].data.items, IsObject)),
                           SliceEnd)

\* C15: every multi-server fetch terminates: it never has more requests than
\* the list has servers (5), and, every request ending, it is eventually
\* fulfilled or rejected.
C15_FetchTerminates ==
    /\ [](\A f \in MultiFetches : Len(fetches[f].tried) <= Len(RADIO_BROWSER_SERVERS))
    /\ \A f \in 1..MaxFetches :
          [](f \in MultiFetches
                => <>(f \in MultiFetches /\ fetches[f].status # "pending"))

\* a fetch was rejected after a request to each of the five servers
C15_Witness ==
    \E f \in MultiFetches :
        /\ fetches[f].status = "rejected"
        /\ Ended(fetches[f]) = Len(RADIO_BROWSER_SERVERS)

---------------------------------------------------------------------------
(* Properties of the outcomes of a refresh                                 *)

\* C13: when a fetch resolves with a value that is no array or with an empty
\* array, the station list becomes empty and the message shown is the
\* no-results message, which is not the message of a failed fetch.
C13_NoResultsState ==
    [][\A f \in 1..Len(fetches) :
          ( /\ fetches[f].status = "pending"
            /\ fetches'[f].status = "fulfilled"
            /\ (~IsArray(fetches'[f].data) \/ Len(fetches'[f].data.items) = 0) )
          => /\ stations' = <<>>
             /\ error' = ErrNoStations
             /\ error' # ErrFailed]_vars

\* stations were displayed, and then the second fetch resolved with no array
\* or with an empty one
C13_Witness ==
    /\ Len(fetches) = 2
    /\ fetches[1].status = "fulfilled"
    /\ fetches[1].data = ArrayOf(<<RecA>>)
    /\ fetches[2].status = "fulfilled"
    /\ (~IsArray(fetches[2].data) \/ Len(fetches[2].data.items) = 0)
    /\ stations = <<>>
    /\ error = ErrNoStations

\* C16: after a fetch that resolved and was normalised, an empty displayed
\* list comes with the no-results message and a non-empty one with no error
\* message; this includes a non-empty raw array whose records were all dropped.
C16_EmptyListIsNoResults ==
    (fetches[1].status = "fulfilled" /\ ~ThenThrows(fetches[1].data))
    => /\ ~isLoading
       /\ stations = <<>> => error = ErrNoStations
       /\ stations # <<>> => error = NoError

\* C17: when a fetch is rejected, the message becomes the failure message, the
\* station list becomes empty and the loading flag is cleared, in the step in
\* which the rejection arrives.
C17_RejectionToErrorState ==
    [][\A f \in 1..Len(fetches) :
          (fetches[f].status = "pending" /\ fetches'[f].status = "rejected")
          => /\ error' = ErrFailed
             /\ stations' = <<>>
             /\ isLoading' = FALSE]_vars

\* stations were displayed, and then the second fetch was rejected
C17_Witness ==
    /\ Len(fetches) = 2
    /\ fetches[1].status = "fulfilled"
    /\ fetches[1].data = ArrayOf(<<RecA>>)
    /\ fetches[2].status = "rejected"
    /\ stations = <<>>
    /\ error = ErrFailed
    /\ ~isLoading

\* C18: the loading flag is set exactly while the fetch started last, the one
\* for the current tag, is in flight.
C18_LoadingTracksCurrentFetch ==
    isLoading <=> fetches[Len(fetches)].status = "pending"

---------------------------------------------------------------------------
(* Properties of the player                                                *)

\* the streams that the page plays
Streams == IF audio.mounted /\ ~audio.paused THEN {audio.src} ELSE {}

\* the source that a selection of station gives the audio element
SourceOf(station) == ToString(Or(station.url_resolved, Str(<<>>)))

\* C14: when a station is selected while a stream plays, the handler pauses
\* the audio element, then assigns the new station's source, then starts
\* playback, in that order; the page never plays two streams at once.
C14_PauseSourcePlay ==
    [][/\ Cardinality(Streams') <= 1
       /\ \A i \in 1..Len(stations) :
             (Streams # {} /\ HandleStationClick(i))
             => /\ Len(calls') = 3
                /\ calls'[1].op = "pause"
                /\ calls'[2] = [op |-> "src", src |-> SourceOf(stations[i])]
                /\ calls'[3].op = "play"
                /\ Streams' = {SourceOf(stations[i])}]_vars

\* the second station of the list was selected on a rendered audio element
C14_Witness ==
    /\ selectedStation = Coerced(RecB)
    /\ Len(calls) = 3
    /\ Streams = {SourceOf(RecB)}
    /\ isPlaying

\* C19: the start of a refresh by a tag change sets the loading flag and
\* clears the error message, and leaves the station list, the selected
\* station, the playing flag and the audio element as they were.
C19_RefreshStartKeepsView ==
    [][tag' # tag
       => /\ isLoading' = TRUE
          /\ error' = NoError
          /\ stations' = stations
          /\ selectedStation' = selectedStation
          /\ isPlaying' = isPlaying
          /\ audio' = audio]_vars

\* a refresh was started while stations were displayed and one of them played
C19_Witness ==
    /\ tag = "rock"
    /\ fetches[Len(fetches)].status = "pending"
    /\ isLoading
    /\ stations # <<>>
    /\ IsObject(selectedStation)
    /\ isPlaying
    /\ Streams # {}

\* C20: after every selection of a station, the first included, the audio
\* element has the source of that station, playback has been started and the
\* playing flag is set.
C20_SelectionStartsPlayback ==
    [][\A i \in 1..Len(stations) :
          HandleStationClick(i)
          => /\ audio'.src = SourceOf(stations[i])
             /\ Streams' = {SourceOf(stations[i])}
             /\ isPlaying']_vars

---------------------------------------------------------------------------
(* Properties of the view across refreshes                                 *)

\* C21: in every state an error message comes with an empty station list, and
\* a non-empty station list with no error message, whatever the interleaving
\* of tag changes and fetch completions.
C21_ErrorExcludesStations ==
    /\ error # NoError => stations = <<>>
    /\ stations # <<>> => error = NoError

\* the records of a list
Members(list) == {list[k] : k \in 1..Len(list)}

\* C22: toggleFavorite(s) adds s to the favourites when it is absent and
\* removes it when it is present, and every other record of the list stays,
\* also a record that has the name of s.
C22_ToggleFavoriteFrame ==
    [][ToggleFavorite
       => LET s == selectedStation
          IN  /\ s \in Members(favorites') <=> s \notin Members(favorites)
              /\ Members(favorites) \ {s} = Members(favorites') \ {s}]_vars

\* C23: a selected station, when there is one, is a member of the current
\* station list, after any sequence of selections, tag changes and fetch
\* completions.
C23_SelectedIsDisplayed ==
    IsObject(selectedStation) => selectedStation \in Members(stations)

====
